---- MODULE Spec2Model ----
(***************************************************************************)
(* The OTP ledger and the inquiry-submission handlers of src/main.py       *)
(* (start_otp, verify_otp, submit_franchise, submit_mall) as a state       *)
(* machine over the three collections otprequest, franchiseinquiry and     *)
(* mallinquiry, the upload directory and a wall clock.                     *)
(*                                                                         *)
(* The store handle `db` is the connected one: the module database.py is   *)
(* not part of the sources, create_document is modelled from its contract  *)
(* (insert one document, tag it with the creation time).  Creation         *)
(* timestamps order as the insertions do, so "sort created_at descending,  *)
(* limit 1" is the last inserted matching record.                          *)
(***************************************************************************)
EXTENDS Integers, Sequences, FiniteSets, TLC

VARIABLES
    now,               \* wall clock, in minutes
    otprequest,        \* collection otprequest: sequence of records, _id = index
    franchiseinquiry,  \* collection franchiseinquiry
    mallinquiry,       \* collection mallinquiry
    uploads,           \* public/uploads: set of [filename, size]
    issued,            \* log of the start_otp responses, in call order
    last,              \* the last completed call: request, response, observations
    mall,              \* the submit_mall request in flight (a coroutine), or idle
    vt                 \* the two racing verify_otp threads

vars == <<now, otprequest, franchiseinquiry, mallinquiry, uploads, issued, last, mall, vt>>

----------------------------------------------------------------------------
(* Bounds of the model *)

MaxTime == 15       \* the clock stops here
ClockStep == 5      \* minutes per clock step
MaxOtp == 2         \* start_otp calls explored by Spec
MaxOtpSub == 1      \* start_otp calls explored beside the submission handlers
MaxDocs == 1        \* documents per inquiry collection

MallIds == {1, 2}   \* two submit_mall requests, possibly in flight together
Threads == {1, 2}   \* two verify_otp requests running in the thread pool

(* Program constants *)

OTP_TTL == 10       \* timedelta(minutes=10)

None == "<None>"
OK == "ok"

Phones == {"9999999999", "8888888888"}
BadPhone == "12345"
Purposes == {"franchise", "mall"}
Codes == {"123456", "000000"}

Max(S) == CHOOSE x \in S : \A y \in S : y <= x

----------------------------------------------------------------------------
(* Responses *)

Success(body) == [status |-> 200, success |-> TRUE, detail |-> OK, body |-> body]
ClientError(d) == [status |-> 400, success |-> FALSE, detail |-> d, body |-> <<>>]
ValidationError == [status |-> 422, success |-> FALSE, detail |-> "validation", body |-> <<>>]

Idle == [op |-> "none", req |-> <<>>, res |-> <<>>, at |-> 0, n |-> 0, rec |-> 0, was |-> FALSE]

----------------------------------------------------------------------------
(* Document store adapter *)

create_document(coll, data, t) ==
    Append(coll, data @@ [_id |-> Len(coll) + 1, created_at |-> t, updated_at |-> t])

----------------------------------------------------------------------------
(* start_otp *)

OTPStartRequestValid(req) ==
    /\ Len(req.phone) >= 10
    /\ Len(req.phone) <= 15
    /\ req.purpose \in {"franchise", "mall"}

IssuedCode == "123456"

ExpiresAt(t) == t + OTP_TTL

start_otp(req) ==
    IF ~OTPStartRequestValid(req)
    THEN /\ last' = [Idle EXCEPT !.op = "start", !.req = req, !.res = ValidationError,
                                 !.at = now, !.n = Len(otprequest)]
         /\ UNCHANGED <<otprequest, issued>>
    ELSE LET code == IssuedCode
             expires_at == ExpiresAt(now)
         IN /\ otprequest' = create_document(otprequest,
                   [phone |-> req.phone, purpose |-> req.purpose, code |-> code,
                    verified |-> FALSE, expires_at |-> expires_at], now)
            /\ issued' = Append(issued, [phone |-> req.phone, purpose |-> req.purpose,
                                         demo_code |-> code, at |-> now])
            /\ last' = [Idle EXCEPT !.op = "start", !.req = req, !.at = now,
                                    !.n = Len(otprequest), !.rec = Len(otprequest) + 1,
                                    !.res = Success([message |-> "OTP sent", demo_code |-> code])]

----------------------------------------------------------------------------
(* verify_otp *)

\* a bug: ascending sort, the oldest matching record is fetched
FindOldest(coll, phone, purpose) ==
    LET S == {i \in DOMAIN coll : coll[i].phone = phone /\ coll[i].purpose = purpose}
    IN IF S = {} THEN <<>> ELSE <<coll[CHOOSE x \in S : \A y \in S : x <= y]>>

\* find({phone, purpose}).sort("created_at", -1).limit(1): a list of at most one record
FindLatest(coll, phone, purpose) ==
    LET S == {i \in DOMAIN coll : coll[i].phone = phone /\ coll[i].purpose = purpose}
    IN IF S = {} THEN <<>> ELSE <<coll[Max(S)]>>

\* a bug: the deadline itself counts as expired
ExpiredAtDeadline(rec, t) == t >= rec.expires_at

Expired(rec, t) == t > rec.expires_at

\* a bug: the expiry is checked before the code
VerifyDetailExpiryFirst(recs, t, code) ==
    IF recs = <<>> THEN "OTP not found"
    ELSE IF Expired(recs[1], t) THEN "OTP expired"
    ELSE IF recs[1].code # code THEN "Invalid OTP"
    ELSE OK

\* a bug: a verified record is refused (one-time use)
VerifyDetailOnce(recs, t, code) ==
    IF recs = <<>> THEN "OTP not found"
    ELSE IF recs[1].code # code \/ recs[1].verified THEN "Invalid OTP"
    ELSE IF Expired(recs[1], t) THEN "OTP expired"
    ELSE OK

\* the checks of verify_otp on the fetched list: the detail of the error raised, or OK
VerifyDetail(recs, t, code) ==
    IF recs = <<>> THEN "OTP not found"
    ELSE IF recs[1].code # code THEN "Invalid OTP"
    ELSE IF Expired(recs[1], t) THEN "OTP expired"
    ELSE OK

\* a bug: the flag is flipped instead of set
UpdateOneToggle(coll, id, t) ==
    [coll EXCEPT ![id].verified = ~coll[id].verified, ![id].updated_at = t]

\* update_one({"_id": id}, {"$set": {"verified": True, "updated_at": now}})
UpdateOne(coll, id, t) ==
    [coll EXCEPT ![id].verified = TRUE, ![id].updated_at = t]

\* a bug: the record is marked as soon as the code matches, before the expiry check
VerifyLedgerEager(coll, t, req) ==
    LET recs == FindLatest(coll, req.phone, req.purpose)
    IN IF recs # <<>> /\ recs[1].code = req.code THEN UpdateOne(coll, recs[1]._id, t) ELSE coll

\* the collection after one whole verify_otp call
VerifyLedger(coll, t, req) ==
    LET recs == FindLatest(coll, req.phone, req.purpose)
    IN IF VerifyDetail(recs, t, req.code) = OK THEN UpdateOne(coll, recs[1]._id, t) ELSE coll

\* the response of one whole verify_otp call
VerifyResponse(coll, t, req) ==
    LET d == VerifyDetail(FindLatest(coll, req.phone, req.purpose), t, req.code)
    IN IF d = OK THEN Success(<<>>) ELSE ClientError(d)

Observed(coll, req) ==
    LET recs == FindLatest(coll, req.phone, req.purpose)
    IN IF recs = <<>> THEN [rec |-> 0, was |-> FALSE]
       ELSE [rec |-> recs[1]._id, was |-> recs[1].verified]

verify_otp(req) ==
    /\ otprequest' = VerifyLedger(otprequest, now, req)
    /\ last' = [op |-> "verify", req |-> req, res |-> VerifyResponse(otprequest, now, req),
                at |-> now, n |-> Len(otprequest), rec |-> Observed(otprequest, req).rec,
                was |-> Observed(otprequest, req).was]

----------------------------------------------------------------------------
(* submit_franchise *)

\* EmailStr accepts the well-formed addresses
WellFormedEmails == {"a@b.co"}

\* FranchisePayload: city_tier is any str, investment_capacity_lakhs any float;
\* the Literal and ge=0 constraints of schemas.FranchiseInquiry are not applied
FranchisePayloadValid(p) ==
    p.email \in WellFormedEmails

\* a bug: the gate runs for every request, the absent code included
OtpCodeAlways(otp_code) == TRUE

\* `if payload.otp_code:` -- None and the empty string are falsy
OtpCodeGiven(otp_code) == otp_code # None /\ otp_code # ""

\* a bug: the HTTPException of verify_otp is swallowed
GateRaisesNever(coll, t, phone, purpose, otp_code) == FALSE

\* try: verify_otp(...) except HTTPException as e: raise e
GateRaises(coll, t, phone, purpose, otp_code) ==
    /\ OtpCodeGiven(otp_code)
    /\ VerifyDetail(FindLatest(coll, phone, purpose), t, otp_code) # OK

\* the collection otprequest after the optional inline verify_otp
GateLedger(coll, t, phone, purpose, otp_code) ==
    IF OtpCodeGiven(otp_code)
    THEN VerifyLedger(coll, t, [phone |-> phone, purpose |-> purpose, code |-> otp_code])
    ELSE coll

GateResponse(coll, t, phone, purpose, otp_code) ==
    VerifyResponse(coll, t, [phone |-> phone, purpose |-> purpose, code |-> otp_code])

submit_franchise(payload) ==
    IF ~FranchisePayloadValid(payload)
    THEN /\ last' = [Idle EXCEPT !.op = "franchise", !.req = payload, !.res = ValidationError,
                                 !.at = now, !.n = Len(otprequest)]
         /\ UNCHANGED <<otprequest, franchiseinquiry>>
    ELSE IF GateRaises(otprequest, now, payload.phone, "franchise", payload.otp_code)
    THEN /\ otprequest' = GateLedger(otprequest, now, payload.phone, "franchise", payload.otp_code)
         /\ last' = [Idle EXCEPT !.op = "franchise", !.req = payload, !.at = now,
                                 !.n = Len(otprequest),
                                 !.res = GateResponse(otprequest, now, payload.phone,
                                                      "franchise", payload.otp_code)]
         /\ UNCHANGED franchiseinquiry
    ELSE /\ otprequest' = GateLedger(otprequest, now, payload.phone, "franchise", payload.otp_code)
         /\ franchiseinquiry' = create_document(franchiseinquiry, payload, now)
         /\ last' = [Idle EXCEPT !.op = "franchise", !.req = payload, !.at = now,
                                 !.n = Len(otprequest),
                                 !.res = Success([id |-> Len(franchiseinquiry) + 1])]

----------------------------------------------------------------------------
(* submit_mall: a coroutine, suspended at `await floorplan.read()` between  *)
(* open(path, "wb") and f.write(content)                                    *)

NoFile == [filename |-> None, size |-> 0]

ServerError == [status |-> 500, success |-> FALSE, detail |-> "Internal Server Error", body |-> <<>>]

MallFormValid(form) ==
    form.email \in WellFormedEmails

\* f"{datetime.now().strftime('%Y%m%d%H%M%S')}_{floorplan.filename}"
FileName(t, name) == ToString(t) \o "_" \o name

\* names with a path separator: the directory public/uploads/<t>_<head> does not exist
NamesWithSeparator == {"x/plan.pdf"}

\* open(path, "wb"): the file is created, or truncated when it exists
OpenWb(fs, fn) ==
    {f \in fs : f.filename # fn} \cup {[filename |-> fn, size |-> 0]}

\* f.write(content) through a handle opened at offset 0, then close
WriteHandle(fs, fn, n) ==
    LET old == CHOOSE f \in fs : f.filename = fn
    IN {f \in fs : f.filename # fn}
         \cup {[filename |-> fn, size |-> IF old.size > n THEN old.size ELSE n]}

FileMeta(fn, n) == [filename |-> fn, path |-> "/uploads/" \o fn, size |-> n]

MallData(form, file_meta) ==
    [contact_name |-> form.contact_name, email |-> form.email, phone |-> form.phone,
     mall_name |-> form.mall_name, location_city |-> form.location_city,
     available_space_sqft |-> form.available_space_sqft, message |-> form.message,
     floorplan |-> file_meta]

MallDone(i) == [mall EXCEPT ![i] = [pc |-> "done"]]

MallReply(form, res) ==
    [Idle EXCEPT !.op = "mall", !.req = form, !.res = res, !.at = now, !.n = Len(otprequest)]

\* submit_mall up to its first suspension, or to its end when it has none
MallBegin(i, form) ==
    /\ mall[i].pc = "idle"
    /\ IF ~MallFormValid(form)
       THEN /\ last' = MallReply(form, ValidationError)
            /\ mall' = MallDone(i)
            /\ UNCHANGED <<otprequest, mallinquiry, uploads>>
       ELSE IF GateRaises(otprequest, now, form.phone, "mall", form.otp_code)
       THEN /\ otprequest' = GateLedger(otprequest, now, form.phone, "mall", form.otp_code)
            /\ last' = MallReply(form, GateResponse(otprequest, now, form.phone, "mall",
                                                    form.otp_code))
            /\ mall' = MallDone(i)
            /\ UNCHANGED <<mallinquiry, uploads>>
       ELSE IF form.floorplan = NoFile
       THEN /\ otprequest' = GateLedger(otprequest, now, form.phone, "mall", form.otp_code)
            /\ mallinquiry' = create_document(mallinquiry, MallData(form, None), now)
            /\ last' = MallReply(form, Success([id |-> Len(mallinquiry) + 1, file |-> None]))
            /\ mall' = MallDone(i)
            /\ UNCHANGED uploads
       ELSE IF form.floorplan.filename \in NamesWithSeparator
       THEN /\ otprequest' = GateLedger(otprequest, now, form.phone, "mall", form.otp_code)
            /\ last' = MallReply(form, ServerError)
            /\ mall' = MallDone(i)
            /\ UNCHANGED <<mallinquiry, uploads>>
       ELSE /\ otprequest' = GateLedger(otprequest, now, form.phone, "mall", form.otp_code)
            /\ uploads' = OpenWb(uploads, FileName(now, form.floorplan.filename))
            /\ mall' = [mall EXCEPT ![i] = [pc |-> "reading", form |-> form,
                                            filename |-> FileName(now, form.floorplan.filename)]]
            /\ UNCHANGED <<mallinquiry, last>>

\* submit_mall from the return of floorplan.read() to its end
MallResume(i) ==
    /\ mall[i].pc = "reading"
    /\ LET form == mall[i].form
           filename == mall[i].filename
           size == form.floorplan.size
           file_meta == FileMeta(filename, size)
       IN /\ uploads' = WriteHandle(uploads, filename, size)
          /\ mallinquiry' = create_document(mallinquiry, MallData(form, file_meta), now)
          /\ last' = MallReply(form, Success([id |-> Len(mallinquiry) + 1, file |-> file_meta]))
    /\ mall' = MallDone(i)
    /\ UNCHANGED otprequest

----------------------------------------------------------------------------
(* The clock *)

Tick ==
    /\ now + ClockStep <= MaxTime
    /\ now' = now + ClockStep
    /\ UNCHANGED <<otprequest, franchiseinquiry, mallinquiry, uploads, issued, last, mall, vt>>

----------------------------------------------------------------------------
(* The OTP ledger alone: start_otp and verify_otp calls, one after another *)

StartReqs == [phone : Phones \cup {BadPhone}, purpose : Purposes \cup {"other"}]
VerifyReqs == [phone : Phones, purpose : Purposes, code : Codes]

NoRace ==
    [req |-> <<>>, pre |-> <<>>,
     th |-> [i \in Threads |-> [pc |-> "idle", recs |-> <<>>, res |-> <<>>]]]

Init ==
    /\ now = 0
    /\ otprequest = <<>>
    /\ franchiseinquiry = <<>>
    /\ mallinquiry = <<>>
    /\ uploads = {}
    /\ issued = <<>>
    /\ last = Idle
    /\ mall = [i \in MallIds |-> [pc |-> "idle"]]
    /\ vt = NoRace

StartOtpCall ==
    /\ Len(otprequest) < MaxOtp
    /\ \E req \in StartReqs : start_otp(req)
    /\ UNCHANGED <<now, franchiseinquiry, mallinquiry, uploads, mall, vt>>

VerifyOtpCall ==
    /\ \E req \in VerifyReqs : verify_otp(req)
    /\ UNCHANGED <<now, franchiseinquiry, mallinquiry, uploads, issued, mall, vt>>

Next == StartOtpCall \/ VerifyOtpCall \/ Tick

Spec == Init /\ [][Next]_vars

----------------------------------------------------------------------------
(* The franchise route beside the OTP ledger *)

SubStartReqs == [phone : {"9999999999"}, purpose : Purposes]

FranchisePayloads ==
    [email : WellFormedEmails \cup {"not-an-email"},
     phone : {"9999999999"},
     investment_capacity_lakhs : {50},
     city_tier : {"Tier 1"},
     otp_code : Codes \cup {None, ""}]
    \cup
    [email : WellFormedEmails,
     phone : {"9999999999"},
     investment_capacity_lakhs : {-1, 50},
     city_tier : {"Tier 1", "Tier 3"},
     otp_code : {None, "123456"}]

SubStartOtpCall ==
    /\ Len(otprequest) < MaxOtpSub
    /\ \E req \in SubStartReqs : start_otp(req)
    /\ UNCHANGED <<now, franchiseinquiry, mallinquiry, uploads, mall, vt>>

SubmitFranchiseCall ==
    /\ Len(franchiseinquiry) < MaxDocs
    /\ \E payload \in FranchisePayloads : submit_franchise(payload)
    /\ UNCHANGED <<now, mallinquiry, uploads, issued, mall, vt>>

SubVerifyOtpCall ==
    /\ \E req \in [phone : {"9999999999"}, purpose : {"franchise"}, code : Codes] : verify_otp(req)
    /\ UNCHANGED <<now, franchiseinquiry, mallinquiry, uploads, issued, mall, vt>>

NextFranchise == SubStartOtpCall \/ SubVerifyOtpCall \/ SubmitFranchiseCall \/ Tick

SpecFranchise == Init /\ [][NextFranchise]_vars

----------------------------------------------------------------------------
(* Two mall submissions beside the OTP ledger *)

MallForms ==
    [contact_name : {"A"}, email : WellFormedEmails \cup {"not-an-email"}, phone : {"9999999999"},
     mall_name : {"M"}, location_city : {"C"}, available_space_sqft : {1200},
     message : {None}, otp_code : {None}, floorplan : {NoFile}]
    \cup
    [contact_name : {"A"}, email : WellFormedEmails, phone : {"9999999999"},
     mall_name : {"M"}, location_city : {"C"}, available_space_sqft : {1200},
     message : {None}, otp_code : Codes \cup {None},
     floorplan : [filename : {"plan.pdf"}, size : {1, 2}]
                   \cup {[filename |-> "x/plan.pdf", size |-> 1]}]

MallStartOtpCall ==
    /\ Len(otprequest) < MaxOtpSub
    /\ \E req \in SubStartReqs : start_otp(req)
    /\ UNCHANGED <<now, franchiseinquiry, mallinquiry, uploads, mall, vt>>

MallBeginCall ==
    /\ \E i \in MallIds, form \in MallForms : MallBegin(i, form)
    /\ UNCHANGED <<now, franchiseinquiry, issued, vt>>

MallResumeCall ==
    /\ \E i \in MallIds : MallResume(i)
    /\ UNCHANGED <<now, franchiseinquiry, issued, vt>>

NextMall == MallStartOtpCall \/ MallBeginCall \/ MallResumeCall \/ Tick

SpecMall == Init /\ [][NextMall]_vars

----------------------------------------------------------------------------
(* Two verify_otp calls racing on one key: each fetches the latest record,  *)
(* then checks its own copy and updates the collection by _id               *)

\* both requests arrive; `pre` keeps the collection as it was
RaceBegin ==
    /\ \A i \in Threads : vt.th[i].pc = "idle"
    /\ \E req \in VerifyReqs :
          vt' = [req |-> req, pre |-> otprequest,
                 th |-> [i \in Threads |-> [pc |-> "called", recs |-> <<>>, res |-> <<>>]]]
    /\ UNCHANGED <<now, otprequest, franchiseinquiry, mallinquiry, uploads, issued, last, mall>>

\* recs = list(db["otprequest"].find(...).sort("created_at", -1).limit(1))
VtFetch(i) ==
    /\ vt.th[i].pc = "called"
    /\ vt' = [vt EXCEPT !.th[i].pc = "fetched",
                        !.th[i].recs = FindLatest(otprequest, vt.req.phone, vt.req.purpose)]
    /\ UNCHANGED <<now, otprequest, franchiseinquiry, mallinquiry, uploads, issued, last, mall>>

\* the checks on the fetched copy, then update_one by _id, then the response
VtFinish(i) ==
    /\ vt.th[i].pc = "fetched"
    /\ LET recs == vt.th[i].recs
           d == VerifyDetail(recs, now, vt.req.code)
       IN IF d = OK
          THEN /\ otprequest' = UpdateOne(otprequest, recs[1]._id, now)
               /\ vt' = [vt EXCEPT !.th[i].pc = "done", !.th[i].res = Success(<<>>)]
          ELSE /\ otprequest' = otprequest
               /\ vt' = [vt EXCEPT !.th[i].pc = "done", !.th[i].res = ClientError(d)]
    /\ UNCHANGED <<now, franchiseinquiry, mallinquiry, uploads, issued, last, mall>>

RaceStartOtpCall ==
    /\ \A i \in Threads : vt.th[i].pc = "idle"
    /\ Len(otprequest) < MaxOtp
    /\ \E req \in [phone : Phones, purpose : Purposes] : start_otp(req)
    /\ UNCHANGED <<now, franchiseinquiry, mallinquiry, uploads, mall, vt>>

VtFetchStep == \E i \in Threads : VtFetch(i)

VtFinishStep == \E i \in Threads : VtFinish(i)

NextRace == RaceStartOtpCall \/ RaceBegin \/ VtFetchStep \/ VtFinishStep \/ Tick

SpecRace == Init /\ [][NextRace]_vars

----------------------------------------------------------------------------
(* What the caller saw: the start_otp responses for the key of the last    *)
(* call that had been returned when it was made, by the log of responses.  *)

StartsBefore(c) ==
    {k \in 1..c.n : issued[k].phone = c.req.phone /\ issued[k].purpose = c.req.purpose}

IsVerify(c) == c.op = "verify"

\* C1: a verify_otp call carrying the demo_code of an earlier start_otp for
\* the same phone and purpose, made no later than 10 minutes after that
\* start_otp, succeeds, whatever calls were made before or in between.
C1_DemoCodeVerifies ==
    IsVerify(last) =>
        \A k \in StartsBefore(last) :
            (last.req.code = issued[k].demo_code /\ last.at <= issued[k].at + 10)
                => last.res.success

\* C1 witness: success at the very deadline of a start_otp that was followed
\* by another start_otp for the key.
C1_Witness ==
    /\ IsVerify(last)
    /\ last.res.success
    /\ \E k \in StartsBefore(last) :
          /\ last.req.code = issued[k].demo_code
          /\ last.at = issued[k].at + 10
          /\ k < Max(StartsBefore(last))

\* C2 as stated: after two start_otp calls for one key, a verify_otp with
\* the code of the first of them fails.
C2_FirstCodeFails ==
    (IsVerify(last) /\ Cardinality(StartsBefore(last)) >= 2
       /\ last.req.code = issued[CHOOSE k \in StartsBefore(last) :
                                   \A j \in StartsBefore(last) : k <= j].demo_code)
        => ~last.res.success

\* C2 amended: after two start_otp calls for one key, a verify_otp with the
\* code of the first of them is checked against the latest record only; both
\* calls issued the same fixed code, so it succeeds when the latest record is
\* unexpired and fails with "OTP expired" otherwise.
C2_FirstCodeCheckedAgainstLatest ==
    (IsVerify(last) /\ Cardinality(StartsBefore(last)) >= 2
       /\ last.req.code = issued[CHOOSE k \in StartsBefore(last) :
                                   \A j \in StartsBefore(last) : k <= j].demo_code)
        => LET m == Max(StartsBefore(last))
           IN /\ last.res.success <=> last.at <= otprequest[m].expires_at
              /\ ~last.res.success => last.res.detail = "OTP expired"

\* C2 witness: the first code succeeds although the first record has expired
\* and a second start_otp superseded it.
C2_Witness ==
    /\ IsVerify(last)
    /\ Cardinality(StartsBefore(last)) >= 2
    /\ last.res.success
    /\ \E k \in StartsBefore(last) : last.at > otprequest[k].expires_at

\* C3: the outcome of verify_otp is decided by the most recently created
\* record of the key: "OTP not found" without one, else "Invalid OTP" on a
\* different code, else "OTP expired" when now > expires_at, else success.
C3_OutcomeByLatestRecord ==
    IsVerify(last) =>
        IF StartsBefore(last) = {} THEN last.res = ClientError("OTP not found")
        ELSE LET r == otprequest[Max(StartsBefore(last))]
             IN IF r.code # last.req.code THEN last.res = ClientError("Invalid OTP")
                ELSE IF last.at > r.expires_at THEN last.res = ClientError("OTP expired")
                ELSE last.res.success /\ last.res.status = 200

\* C3 witness: a wrong code against an expired record is reported as invalid.
C3_Witness ==
    /\ IsVerify(last)
    /\ StartsBefore(last) # {}
    /\ last.at > otprequest[Max(StartsBefore(last))].expires_at
    /\ last.res.detail = "Invalid OTP"

\* C7: a verify_otp call repeated with the arguments of a successful one,
\* while the record is still the latest of its key and unexpired, succeeds
\* too and leaves the record verified.
C7_VerifyIdempotent ==
    (IsVerify(last) /\ StartsBefore(last) # {}) =>
        LET m == Max(StartsBefore(last))
        IN (last.was /\ last.rec = m /\ last.req.code = otprequest[m].code
              /\ last.at <= otprequest[m].expires_at)
            => last.res.success /\ otprequest[m].verified

\* C7 witness: a second success on a record that was already verified.
C7_Witness ==
    /\ IsVerify(last)
    /\ last.was
    /\ last.rec # 0
    /\ last.res.success
    /\ otprequest[last.rec].verified

\* C8: a verify_otp call that fails changes no OTP record and no inquiry
\* collection.
C8_FailedVerifyMutatesNothing ==
    [][LET req == last'.req IN
          (last'.op = "verify" /\ verify_otp(req) /\ ~last'.res.success)
            => /\ otprequest' = otprequest
               /\ franchiseinquiry' = franchiseinquiry
               /\ mallinquiry' = mallinquiry]_vars

\* C8 witness: the right code failed as expired and the record is unverified.
C8_Witness ==
    /\ IsVerify(last)
    /\ last.res.detail = "OTP expired"
    /\ last.rec # 0
    /\ ~otprequest[last.rec].verified

\* C4 as stated: a submit_franchise call whose otp_code is present and does
\* not pass verify_otp for (phone, "franchise") fails with the verify error
\* and creates no franchiseinquiry document.
C4_WrongCodeFails ==
    [][LET p == last'.req IN
          (/\ last'.op = "franchise"
           /\ submit_franchise(p)
           /\ FranchisePayloadValid(p)
           /\ p.otp_code # None
           /\ VerifyDetail(FindLatest(otprequest, p.phone, "franchise"), now, p.otp_code) # OK)
            => /\ last'.res = ClientError(VerifyDetail(FindLatest(otprequest, p.phone, "franchise"),
                                                       now, p.otp_code))
               /\ franchiseinquiry' = franchiseinquiry]_vars

\* C4 amended: a submit_franchise call whose otp_code is a non-empty string
\* that does not pass verify_otp for (phone, "franchise") fails with the
\* verify error and creates no franchiseinquiry document.
C4_NonEmptyWrongCodeFails ==
    [][LET p == last'.req IN
          (/\ last'.op = "franchise"
           /\ submit_franchise(p)
           /\ FranchisePayloadValid(p)
           /\ p.otp_code # None
           /\ p.otp_code # ""
           /\ VerifyDetail(FindLatest(otprequest, p.phone, "franchise"), now, p.otp_code) # OK)
            => /\ last'.res = ClientError(VerifyDetail(FindLatest(otprequest, p.phone, "franchise"),
                                                       now, p.otp_code))
               /\ franchiseinquiry' = franchiseinquiry]_vars

\* C4 witness: a wrong code against an issued record was refused and no
\* document exists.
C4_Witness ==
    /\ last.op = "franchise"
    /\ last.req.otp_code = "000000"
    /\ last.res = ClientError("Invalid OTP")
    /\ franchiseinquiry = <<>>

\* C5: a submit_franchise call without otp_code succeeds in every state of
\* the OTP ledger, appends exactly one franchiseinquiry document holding the
\* payload, and changes no OTP record.
C5_NoCodeBypass ==
    [][LET p == last'.req IN
          (last'.op = "franchise" /\ submit_franchise(p)
             /\ FranchisePayloadValid(p) /\ p.otp_code = None)
            => /\ last'.res.success
               /\ Len(franchiseinquiry') = Len(franchiseinquiry) + 1
               /\ SubSeq(franchiseinquiry', 1, Len(franchiseinquiry)) = franchiseinquiry
               /\ \A f \in DOMAIN p : franchiseinquiry'[Len(franchiseinquiry')][f] = p[f]
               /\ otprequest' = otprequest]_vars

\* C5 witness: a document was created without a code while the only record
\* of the phone is expired and unverified.
C5_Witness ==
    /\ last.op = "franchise"
    /\ last.req.otp_code = None
    /\ last.res.success
    /\ Len(franchiseinquiry) = 1
    /\ \E i \in DOMAIN otprequest :
          /\ otprequest[i].phone = last.req.phone
          /\ otprequest[i].purpose = "franchise"
          /\ ~otprequest[i].verified
          /\ last.at > otprequest[i].expires_at

\* C9 as stated: a submit_franchise call whose city_tier is neither "Tier 1"
\* nor "Tier 2", or whose investment_capacity_lakhs is negative, is rejected
\* with a validation error; no OTP record changes, no document is created.
C9_RangeAndEnumValidated ==
    [][LET p == last'.req IN
          (last'.op = "franchise" /\ submit_franchise(p)
             /\ (p.city_tier \notin {"Tier 1", "Tier 2"} \/ p.investment_capacity_lakhs < 0))
            => /\ last'.res = ValidationError
               /\ otprequest' = otprequest
               /\ franchiseinquiry' = franchiseinquiry]_vars

\* C6 as stated: in every submit_mall call with a file part that passes the
\* OTP gate, the file is in storage before the mallinquiry document is
\* created, and the document's floorplan metadata holds exactly the stored
\* filename and the byte size of the stored file.
C6_MetadataReflectsStoredFile ==
    [][\A i \in MallIds :
          MallResume(i)
            => LET d == mallinquiry'[Len(mallinquiry')]
               IN /\ \E f \in uploads : f.filename = d.floorplan.filename
                  /\ \E f \in uploads' : /\ f.filename = d.floorplan.filename
                                         /\ f.size = d.floorplan.size]_vars

WithoutStamp(coll) ==
    [i \in DOMAIN coll |-> [f \in DOMAIN coll[i] \ {"updated_at"} |-> coll[i][f]]]

RaceOver == \A i \in Threads : vt.th[i].pc = "done"

\* the code of the racing calls is that of the latest record of the key,
\* which is unexpired to the end of the race
RaceOnGoodCode ==
    LET recs == FindLatest(vt.pre, vt.req.phone, vt.req.purpose)
    IN recs # <<>> /\ recs[1].code = vt.req.code /\ now <= recs[1].expires_at

\* C10: two concurrent verify_otp calls on one key with the correct,
\* unexpired code both succeed in every interleaving, and leave the
\* collection as one verify_otp alone would: that record verified, every
\* other record unchanged (up to updated_at).
C10_RacingVerifiesBenign ==
    (RaceOver /\ RaceOnGoodCode) =>
        /\ \A i \in Threads : vt.th[i].res = Success(<<>>)
        /\ WithoutStamp(otprequest) = WithoutStamp(VerifyLedger(vt.pre, now, vt.req))
        /\ LET m == FindLatest(vt.pre, vt.req.phone, vt.req.purpose)[1]._id
           IN /\ otprequest[m].verified
              /\ \A k \in DOMAIN otprequest : k # m => otprequest[k] = vt.pre[k]

\* C10 witness: both calls fetched the record while it was unverified, both
\* marked it, and another record stands beside it.
C10_Witness ==
    /\ RaceOver
    /\ RaceOnGoodCode
    /\ \A i \in Threads : vt.th[i].recs # <<>> /\ ~vt.th[i].recs[1].verified
    /\ \A i \in Threads : vt.th[i].res.success
    /\ Len(otprequest) >= 2

====
